---- MODULE Spec2Model ----
(***************************************************************************)
(* Model of go_graph (src/main.go): a dependency graph of named units of   *)
(* work (Graph.Add), its depth-first topological sort (Graph.Sort /        *)
(* Graph.visit), its compilation into a fan-out plan                       *)
(* (Graph.CompileToExecutable) and the recursive executor                  *)
(* (ParallelizedExecutableGraph.run / runNode).                            *)
(*                                                                         *)
(* Go maps are iterated in an unspecified order.  Every operator that      *)
(* models a `range` over a map therefore yields the SET of results of all  *)
(* iteration orders, and the actions choose one of them.                   *)
(***************************************************************************)
EXTENDS Integers, Sequences, FiniteSets, TLC

\* Node identifiers the callers use.  NodeID is a Go string, so the empty
\* string is an identifier like any other.
IDs == {"", "a", "b", "c"}

\* Work functions: one that returns nil and one that returns an error.
Fns == {"f_ok", "f_err"}

\* The zero value of a NodeFn field.
NilFn == "nil"

\* Largest number of nodes a graph is grown to.
MaxNodes == 3

\* Largest number of dependencies of a node of the graphs that are run
\* without having been built through Add.
MaxDeps == 2

\* Number of nested runNode activations the goroutine stack holds; the Go
\* runtime ends the program when a stack outgrows its limit.
MaxDepth == 6

\* The nil error.
NoErr == [kind |-> "nil", id |-> ""]

DuplicateErr(id) == [kind |-> "duplicate", id |-> id]
MissingErr(id) == [kind |-> "missing", id |-> id]
CycleErr(id) == [kind |-> "cycle", id |-> id]

VARIABLES
    nodes,      \* Graph.nodes: identifier -> Node
    res,        \* what the last call on the graph returned
    plan,       \* ParallelizedExecutableGraph.nodes, once compiled
    plan2,      \* the nodes of the plan of a second CompileToExecutable call
    pc,         \* position of the driver: "build", "compiled", "running",
                \* "done", or "crashed" when the run ended the program
    rootIds,    \* run(): the slice returned by RootIds()
    idx,        \* run(): index of the next root to run
    stack,      \* the runNode activations, innermost last
    started,    \* identifier -> number of times its work was called
    returned,   \* identifier -> number of times its work returned
    failed      \* identifiers whose work returned an error

vars == <<nodes, res, plan, plan2, pc, rootIds, idx, stack, started, returned, failed>>

\* ------------------------------------------------------------------------
\* Node and Graph

NewNode(name, dependencies, fn) ==
    [Name |-> name, Fn |-> fn, Dependencies |-> dependencies]

Identifier(n) == n.Name

\* NewGraph: an empty map.
NewGraph == [x \in {} |-> NewNode("", {}, NilFn)]

\* Put as it would be if the map were made anew for the node.
Put_Fresh(g, id, node) ==
    [x \in {id} |-> node]

\* g.nodes[id] = node
Put(g, id, node) ==
    [x \in DOMAIN g \cup {id} |-> IF x = id THEN node ELSE g[x]]

\* Add as it would be if the node were stored before the dependency loop.
Add_StoreFirst(g, node) ==
    LET id == Identifier(node)
        missing == {depId \in node.Dependencies : depId \notin DOMAIN g}
    IN  IF id \in DOMAIN g
        THEN {[nodes |-> g, id |-> "", err |-> DuplicateErr(id)]}
        ELSE IF missing # {}
        THEN {[nodes |-> Put(g, id, node), id |-> "", err |-> MissingErr(depId)]
                : depId \in missing}
        ELSE {[nodes |-> Put(g, id, node), id |-> id, err |-> NoErr]}

\* Add as it would be if the dependency loop came before the duplicate check.
Add_DependenciesFirst(g, node) ==
    LET id == Identifier(node)
        missing == {depId \in node.Dependencies : depId \notin DOMAIN g}
    IN  IF missing # {}
        THEN {[nodes |-> g, id |-> "", err |-> MissingErr(depId)] : depId \in missing}
        ELSE IF id \in DOMAIN g
        THEN {[nodes |-> g, id |-> "", err |-> DuplicateErr(id)]}
        ELSE {[nodes |-> Put(g, id, node), id |-> id, err |-> NoErr]}

\* Add as it would be without the dependency loop.
Add_NoDependencyLoop(g, node) ==
    LET id == Identifier(node)
    IN  IF id \in DOMAIN g
        THEN {[nodes |-> g, id |-> "", err |-> DuplicateErr(id)]}
        ELSE {[nodes |-> Put(g, id, node), id |-> id, err |-> NoErr]}

\* Graph.Add: the possible returns (graph afterwards, identifier, error).
\* The dependency loop returns at the first missing dependency it meets,
\* which is any of the missing ones.
Add(g, node) ==
    LET id == Identifier(node)
        missing == {depId \in node.Dependencies : depId \notin DOMAIN g}
    IN  IF id \in DOMAIN g
        THEN {[nodes |-> g, id |-> "", err |-> DuplicateErr(id)]}
        ELSE IF missing # {}
        THEN {[nodes |-> g, id |-> "", err |-> MissingErr(depId)] : depId \in missing}
        ELSE {[nodes |-> Put(g, id, node), id |-> id, err |-> NoErr]}

\* ------------------------------------------------------------------------
\* Sort

\* The loop at the end of visit: the first slot holding "" receives name.
FillFirstEmpty(results, name) ==
    LET empties == {i \in 1..Len(results) : results[i] = ""}
    IN  IF empties = {}
        THEN results
        ELSE LET i == CHOOSE k \in empties : \A j \in empties : k <= j
             IN  [results EXCEPT ![i] = name]

RECURSIVE visit(_, _, _, _)
RECURSIVE visitNeighbors(_, _, _)

\* The loop of visit as it would be if it passed over a neighbour that is
\* not in the graph.
visitNeighbors_SkipAbsent(g, todo, st) ==
    IF todo = {}
    THEN {st}
    ELSE UNION {
           LET after ==
                 IF n \notin st.visited
                 THEN IF n \notin DOMAIN g
                      THEN {st}
                      ELSE visit(g, n, g[n].Dependencies, st)
                 ELSE IF n \in st.stack
                      THEN {[st EXCEPT !.err = CycleErr(n)]}
                      ELSE {st}
           IN  UNION { IF s.err # NoErr
                       THEN {s}
                       ELSE visitNeighbors(g, todo \ {n}, s) : s \in after }
           : n \in todo }

\* The `for n := range neighbors` loop of visit, todo being the neighbours
\* not yet iterated.  st holds visited, stack, results and the error
\* returned so far.
visitNeighbors(g, todo, st) ==
    IF todo = {}
    THEN {st}
    ELSE UNION {
           LET after ==
                 IF n \notin st.visited
                 THEN IF n \notin DOMAIN g
                      THEN {[st EXCEPT !.err = MissingErr(n)]}
                      ELSE visit(g, n, g[n].Dependencies, st)
                 ELSE IF n \in st.stack
                      THEN {[st EXCEPT !.err = CycleErr(n)]}
                      ELSE {st}
           IN  UNION { IF s.err # NoErr
                       THEN {s}
                       ELSE visitNeighbors(g, todo \ {n}, s) : s \in after }
           : n \in todo }

\* visit as it would be if it did not mark the node as being on the stack.
visit_NoStack(g, name, neighbors, st) ==
    LET entered == [st EXCEPT !.visited = @ \cup {name}]
    IN  { IF s.err # NoErr
          THEN s
          ELSE [s EXCEPT !.results = FillFirstEmpty(@, name),
                         !.stack = @ \ {name}]
          : s \in visitNeighbors(g, neighbors, entered) }

\* Graph.visit
visit(g, name, neighbors, st) ==
    LET entered == [st EXCEPT !.visited = @ \cup {name}, !.stack = @ \cup {name}]
    IN  { IF s.err # NoErr
          THEN s
          ELSE [s EXCEPT !.results = FillFirstEmpty(@, name),
                         !.stack = @ \ {name}]
          : s \in visitNeighbors(g, neighbors, entered) }

RECURSIVE SortLoop(_, _, _)

\* The `for n, node := range g.nodes` loop of Sort.
SortLoop(g, todo, st) ==
    IF todo = {}
    THEN {st}
    ELSE UNION {
           LET after ==
                 IF n \notin st.visited
                 THEN visit(g, n, g[n].Dependencies, [st EXCEPT !.stack = {}])
                 ELSE {st}
           IN  UNION { IF s.err # NoErr
                       THEN {s}
                       ELSE SortLoop(g, todo \ {n}, s) : s \in after }
           : n \in todo }

\* Graph.Sort: the possible returns (order, error).
Sort(g) ==
    LET st0 == [visited |-> {}, stack |-> {},
                results |-> [i \in 1..Cardinality(DOMAIN g) |-> ""],
                err |-> NoErr]
    IN  { IF s.err # NoErr
          THEN [order |-> <<>>, err |-> s.err]
          ELSE [order |-> s.results, err |-> NoErr]
          : s \in SortLoop(g, DOMAIN g, st0) }

\* ------------------------------------------------------------------------
\* Compilation

\* &ExecutableNode{}: nil targets, required 0, no work function.
ZeroExecutableNode ==
    [targetIDs |-> {}, nilTargets |-> TRUE, required |-> 0, fn |-> NilFn]

\* AddTargets as it would be if it always made a new map.
AddTargets_Overwrite(exn, nodeIds) ==
    [exn EXCEPT !.targetIDs = {nodeIds[nidx] : nidx \in 1..Len(nodeIds)},
                !.nilTargets = FALSE]

\* ExecutableNode.AddTargets; nodeIds is the variadic slice.
AddTargets(exn, nodeIds) ==
    LET ids == {nodeIds[nidx] : nidx \in 1..Len(nodeIds)}
    IN  IF exn.nilTargets
        THEN [exn EXCEPT !.targetIDs = ids, !.nilTargets = FALSE]
        ELSE [exn EXCEPT !.targetIDs = @ \cup ids]

\* GetOrCreate as it would be if it stored a new node without looking
\* the identifier up.
GetOrCreate_Always(en, id) ==
    [x \in DOMAIN en \cup {id} |-> IF x = id THEN ZeroExecutableNode ELSE en[x]]

\* executableNodes.GetOrCreate: the map afterwards; the node it returns is
\* the entry under id.
GetOrCreate(en, id) ==
    IF id \in DOMAIN en
    THEN en
    ELSE [x \in DOMAIN en \cup {id} |-> IF x = id THEN ZeroExecutableNode ELSE en[x]]

RECURSIVE CompileDeps(_, _, _)

\* The `for depId := range node.Dependencies` loop of CompileToExecutable.
CompileDeps(en, id, todo) ==
    IF todo = {}
    THEN {en}
    ELSE UNION {
           LET created == GetOrCreate(en, depId)
               targeted == [created EXCEPT ![depId] = AddTargets(@, <<id>>)]
           IN  CompileDeps(targeted, id, todo \ {depId})
           : depId \in todo }

RECURSIVE CompileLoop(_, _, _)

\* The loop of CompileToExecutable as it would be without n.fn = node.Fn.
CompileLoop_NoFn(g, todo, en) ==
    IF todo = {}
    THEN {en}
    ELSE UNION {
           UNION {
             LET created == GetOrCreate(withDeps, id)
                 set == [created EXCEPT ![id].required = Cardinality(g[id].Dependencies)]
             IN  CompileLoop(g, todo \ {id}, set)
             : withDeps \in CompileDeps(en, id, g[id].Dependencies) }
           : id \in todo }

\* The `for id, node := range g.nodes` loop of CompileToExecutable.
CompileLoop(g, todo, en) ==
    IF todo = {}
    THEN {en}
    ELSE UNION {
           UNION {
             LET created == GetOrCreate(withDeps, id)
                 set == [created EXCEPT ![id].fn = g[id].Fn,
                                        ![id].required = Cardinality(g[id].Dependencies)]
             IN  CompileLoop(g, todo \ {id}, set)
             : withDeps \in CompileDeps(en, id, g[id].Dependencies) }
           : id \in todo }

\* Graph.CompileToExecutable: the possible plans.
CompileToExecutable(g) == CompileLoop(g, DOMAIN g, <<>>)

RECURSIVE RootIdsLoop(_, _, _)

\* The loop of RootIds as it would be without the test of required.
RootIdsLoop_All(en, todo, acc) ==
    IF todo = {}
    THEN {acc}
    ELSE UNION { RootIdsLoop(en, todo \ {id}, Append(acc, id)) : id \in todo }

\* The loop of RootIds as it would be if it kept the first root only.
RootIdsLoop_First(en, todo, acc) ==
    IF todo = {}
    THEN {acc}
    ELSE UNION {
           RootIdsLoop(en, todo \ {id},
                       IF en[id].required = 0 /\ acc = <<>> THEN Append(acc, id) ELSE acc)
           : id \in todo }

\* The loop of RootIds, which appends in map order.
RootIdsLoop(en, todo, acc) ==
    IF todo = {}
    THEN {acc}
    ELSE UNION {
           RootIdsLoop(en, todo \ {id},
                       IF en[id].required = 0 THEN Append(acc, id) ELSE acc)
           : id \in todo }

\* executableNodes.RootIds: the possible slices.
RootIds(en) == RootIdsLoop(en, DOMAIN en, <<>>)

\* ------------------------------------------------------------------------
\* State

NoNode == NewNode("", {}, NilFn)

\* What a call returned (id, err, order), with the call it answers: the
\* operation, the node passed and the graph at the time of the call.
Result(op, arg, before, id, err, order) ==
    [op |-> op, arg |-> arg, before |-> before,
     id |-> id, err |-> err, order |-> order]

NoResult == Result("none", NoNode, NewGraph, "", NoErr, <<>>)

ZeroCounts == [id \in IDs |-> 0]

Init ==
    /\ nodes = NewGraph
    /\ res = NoResult
    /\ plan = <<>>
    /\ plan2 = <<>>
    /\ pc = "build"
    /\ rootIds = <<>>
    /\ idx = 0
    /\ stack = <<>>
    /\ started = ZeroCounts
    /\ returned = ZeroCounts
    /\ failed = {}

runVars == <<rootIds, idx, stack, started, returned, failed>>

\* ------------------------------------------------------------------------
\* The driver: Add calls, Sort calls, then CompileToExecutable and run

\* The nodes callers pass to Add.
NodeArgs ==
    {NewNode(name, dependencies, fn) :
        name \in IDs, dependencies \in SUBSET IDs, fn \in Fns}

\* g.Add(node) is called and returns one of its possible results.
AddCall(node) ==
    /\ pc = "build"
    /\ res = NoResult
    /\ \E o \in Add(nodes, node) :
         /\ o.err = NoErr => Cardinality(DOMAIN nodes) < MaxNodes
         /\ nodes' = o.nodes
         /\ res' = Result("Add", node, nodes, o.id, o.err, <<>>)
    /\ UNCHANGED <<plan, plan2, pc, runVars>>

DoAdd == \E node \in NodeArgs : AddCall(node)

\* Sort as it would be if it emptied the dependency sets it has walked.
DoSort_Consuming ==
    /\ pc = "build"
    /\ res = NoResult
    /\ \E o \in Sort(nodes) :
         res' = Result("Sort", NoNode, nodes, "", o.err, o.order)
    /\ nodes' = [n \in DOMAIN nodes |-> [nodes[n] EXCEPT !.Dependencies = {}]]
    /\ UNCHANGED <<plan, plan2, pc, runVars>>

\* g.Sort() is called and returns one of its possible results.
DoSort ==
    /\ pc = "build"
    /\ res = NoResult
    /\ \E o \in Sort(nodes) :
         res' = Result("Sort", NoNode, nodes, "", o.err, o.order)
    /\ UNCHANGED <<nodes, plan, plan2, pc, runVars>>

\* The caller is done with what the last call returned (main overwrites
\* err with each call) and goes on to its next call.
Discard ==
    /\ pc = "build"
    /\ res # NoResult
    /\ res' = NoResult
    /\ UNCHANGED <<nodes, plan, plan2, pc, runVars>>

\* g.CompileToExecutable() is called and returns one of its possible plans.
DoCompile ==
    /\ pc = "build"
    /\ res = NoResult
    /\ \E p \in CompileToExecutable(nodes) : plan' = p
    /\ pc' = "compiled"
    /\ UNCHANGED <<nodes, res, plan2, runVars>>

\* ------------------------------------------------------------------------
\* run and runNode, one step per call, return and loop iteration

\* runNode(id) entered: node.fn(id) is called.
Call(stk, id) == Append(stk, [id |-> id, at |-> "fn", todo |-> {}])

Top == stack[Len(stack)]

SetTop(stk, frame) == [stk EXCEPT ![Len(stk)] = frame]

\* run: rootIds := peg.nodes.RootIds()
Run ==
    /\ pc = "compiled"
    /\ \E r \in RootIds(plan) : rootIds' = r
    /\ idx' = 1
    /\ pc' = "running"
    /\ UNCHANGED <<nodes, res, plan, plan2, stack, started, returned, failed>>

\* run: the next iteration of the loop over rootIds calls runNode.
RunRoot ==
    /\ pc = "running"
    /\ stack = <<>>
    /\ idx <= Len(rootIds)
    /\ plan[rootIds[idx]].fn # NilFn
    /\ stack' = Call(stack, rootIds[idx])
    /\ started' = [started EXCEPT ![rootIds[idx]] = @ + 1]
    /\ idx' = idx + 1
    /\ UNCHANGED <<nodes, res, plan, plan2, pc, rootIds, returned, failed>>

\* run: the loop over rootIds is over.
RunReturn ==
    /\ pc = "running"
    /\ stack = <<>>
    /\ idx > Len(rootIds)
    /\ pc' = "done"
    /\ UNCHANGED <<nodes, res, plan, plan2, rootIds, idx, stack, started, returned, failed>>

\* runNode: node.fn(id) returns; its result is dropped and the loop over
\* node.targetIDs begins.
FnReturn ==
    /\ pc = "running"
    /\ stack # <<>>
    /\ Top.at = "fn"
    /\ returned' = [returned EXCEPT ![Top.id] = @ + 1]
    /\ failed' = IF plan[Top.id].fn = "f_err" THEN failed \cup {Top.id} ELSE failed
    /\ stack' = SetTop(stack, [Top EXCEPT !.at = "range", !.todo = plan[Top.id].targetIDs])
    /\ UNCHANGED <<nodes, res, plan, plan2, pc, rootIds, idx, started>>

\* runNode: the next iteration of the loop over node.targetIDs calls runNode.
RunTarget ==
    /\ pc = "running"
    /\ stack # <<>>
    /\ Top.at = "range"
    /\ Len(stack) < MaxDepth
    /\ \E target \in Top.todo :
         /\ stack' = Call(SetTop(stack, [Top EXCEPT !.todo = @ \ {target}]), target)
         /\ started' = [started EXCEPT ![target] = @ + 1]
    /\ UNCHANGED <<nodes, res, plan, plan2, pc, rootIds, idx, returned, failed>>

\* runNode: the loop over node.targetIDs is over and runNode returns.
RunNodeReturn ==
    /\ pc = "running"
    /\ stack # <<>>
    /\ Top.at = "range"
    /\ Top.todo = {}
    /\ stack' = SubSeq(stack, 1, Len(stack) - 1)
    /\ UNCHANGED <<nodes, res, plan, plan2, pc, rootIds, idx, started, returned, failed>>

Next ==
    \/ DoAdd
    \/ DoSort
    \/ Discard
    \/ DoCompile
    \/ Run
    \/ RunRoot
    \/ RunReturn
    \/ FnReturn
    \/ RunTarget
    \/ RunNodeReturn

Spec == Init /\ [][Next]_vars

\* A step of run(), its call included.
RunStep ==
    \/ Run
    \/ RunRoot
    \/ RunReturn
    \/ FnReturn
    \/ RunTarget
    \/ RunNodeReturn

RECURSIVE BuiltGraphs(_)

\* The graphs that k Add calls on a new graph lead to.
BuiltGraphs(k) ==
    IF k = 0
    THEN {NewGraph}
    ELSE LET sofar == BuiltGraphs(k - 1)
         IN  UNION {{g} \cup UNION {{o.nodes : o \in Add(g, node)} : node \in NodeArgs} :
                    g \in sofar}

\* The driver has built its graph.
InitBuilt ==
    /\ nodes \in BuiltGraphs(MaxNodes)
    /\ res = NoResult
    /\ plan = <<>>
    /\ plan2 = <<>>
    /\ pc = "build"
    /\ rootIds = <<>>
    /\ idx = 0
    /\ stack = <<>>
    /\ started = ZeroCounts
    /\ returned = ZeroCounts
    /\ failed = {}

NextLive ==
    \/ DoCompile
    \/ RunStep

\* The driver calls run() on the plan it compiled, run() is one sequential
\* computation that goes on while it has a step to take, and the work
\* functions return.
SpecLive == InitBuilt /\ [][NextLive]_vars /\ WF_vars(RunStep)

\* ------------------------------------------------------------------------
\* Graphs that are not built through Add: Node.Dependencies is a map the
\* caller keeps a reference to and Graph.nodes is a package-level field, so
\* a graph may hold cycles and dependencies that are absent.

AnyGraphs ==
    UNION { [ids -> {NewNode("", dependencies, "f_ok") : dependencies \in SUBSET IDs}]
            : ids \in {S \in SUBSET IDs : Cardinality(S) <= MaxNodes} }

\* Node.Name of the node stored under id is id.
Named(g) == [id \in DOMAIN g |-> [g[id] EXCEPT !.Name = id]]

InitAny ==
    /\ nodes \in {Named(g) : g \in AnyGraphs}
    /\ res = NoResult
    /\ plan = <<>>
    /\ plan2 = <<>>
    /\ pc = "build"
    /\ rootIds = <<>>
    /\ idx = 0
    /\ stack = <<>>
    /\ started = ZeroCounts
    /\ returned = ZeroCounts
    /\ failed = {}

NextAny ==
    \/ DoSort
    \/ Discard

SpecAny == InitAny /\ [][NextAny]_vars

\* ------------------------------------------------------------------------
\* Compiling and running such graphs, without sorting them first

InitAnyRun ==
    /\ nodes \in {Named(g) : g \in
                   {h \in AnyGraphs :
                      \A n \in DOMAIN h : Cardinality(h[n].Dependencies) <= MaxDeps}}
    /\ res = NoResult
    /\ plan = <<>>
    /\ plan2 = <<>>
    /\ pc = "build"
    /\ rootIds = <<>>
    /\ idx = 0
    /\ stack = <<>>
    /\ started = ZeroCounts
    /\ returned = ZeroCounts
    /\ failed = {}

\* runNode of a root whose node has no work function: node.fn(id) is a
\* call of a nil function, which panics.
NilFnPanic ==
    /\ pc = "running"
    /\ stack = <<>>
    /\ idx <= Len(rootIds)
    /\ plan[rootIds[idx]].fn = NilFn
    /\ pc' = "crashed"
    /\ UNCHANGED <<nodes, res, plan, plan2, rootIds, idx, stack, started, returned, failed>>

\* runNode: the next nested call does not fit on the stack.
StackOverflow ==
    /\ pc = "running"
    /\ stack # <<>>
    /\ Top.at = "range"
    /\ Top.todo # {}
    /\ Len(stack) >= MaxDepth
    /\ pc' = "crashed"
    /\ UNCHANGED <<nodes, res, plan, plan2, rootIds, idx, stack, started, returned, failed>>

NextAnyRun ==
    \/ DoCompile
    \/ Run
    \/ RunRoot
    \/ RunReturn
    \/ FnReturn
    \/ RunTarget
    \/ RunNodeReturn
    \/ NilFnPanic
    \/ StackOverflow

SpecAnyRun == InitAnyRun /\ [][NextAnyRun]_vars

\* Sorting and compiling such graphs.
NextAnyPlan ==
    \/ DoSort
    \/ Discard
    \/ DoCompile

SpecAnyPlan == InitAnyRun /\ [][NextAnyPlan]_vars

\* ------------------------------------------------------------------------
\* Two plans of one graph: CompileToExecutable is called a second time, the
\* first plan is run, and the caller then adds a target to a node of the
\* second plan.

\* g.CompileToExecutable() is called again, before the first plan is run.
CompileAgain ==
    /\ pc = "compiled"
    /\ plan2 = <<>>
    /\ \E p \in CompileToExecutable(nodes) : plan2' = p
    /\ UNCHANGED <<nodes, res, plan, pc, runVars>>

\* peg2.nodes[id].AddTargets(target), once the first plan has been run.
\* One such call is made: the second plan still equals the first.
AddTargetsCall ==
    /\ pc = "done"
    /\ plan2 # <<>>
    /\ plan2 = plan
    /\ \E id \in DOMAIN plan2, target \in IDs :
         /\ plan2' = [plan2 EXCEPT ![id] = AddTargets(@, <<target>>)]
         /\ plan2' # plan2
    /\ UNCHANGED <<nodes, res, plan, pc, runVars>>

NextTwice ==
    \/ DoAdd
    \/ Discard
    \/ DoCompile
    \/ CompileAgain
    \/ Run
    \/ RunRoot
    \/ RunReturn
    \/ FnReturn
    \/ RunTarget
    \/ RunNodeReturn
    \/ AddTargetsCall

SpecTwice == Init /\ [][NextTwice]_vars

\* ------------------------------------------------------------------------
\* Vocabulary of the properties

Range(seq) == {seq[i] : i \in 1..Len(seq)}

\* What the executor reads of a plan, apart from the work functions.
Topology(en) ==
    [id \in DOMAIN en |->
        [required |-> en[id].required, targetIDs |-> en[id].targetIDs]]

RECURSIVE Closure(_, _)

\* The identifiers reachable from S by following dependencies.
Closure(g, S) ==
    LET more == S \cup UNION {g[x].Dependencies : x \in S \cap DOMAIN g}
    IN  IF more = S THEN S ELSE Closure(g, more)

\* The transitive dependencies of n.
Ancestors(g, n) == Closure(g, g[n].Dependencies)

\* The nodes that depend on n, directly or transitively.
TransitiveDependents(g, n) == {m \in DOMAIN g : n \in Ancestors(g, m)}

AllPresent(g) == \A n \in DOMAIN g : g[n].Dependencies \subseteq DOMAIN g

OnCycle(g, n) == n \in DOMAIN g /\ n \in Ancestors(g, n)

Cyclic(g) == \E n \in DOMAIN g : OnCycle(g, n)

\* A chain: one node without dependencies, every other node depends on
\* exactly one node, and no node is the dependency of two nodes.
IsChain(g) ==
    /\ Cardinality({n \in DOMAIN g : g[n].Dependencies = {}}) = 1
    /\ \A n \in DOMAIN g : Cardinality(g[n].Dependencies) <= 1
    /\ \A d \in DOMAIN g : Cardinality({n \in DOMAIN g : d \in g[n].Dependencies}) <= 1

Executing == pc \in {"running", "done"}

\* ------------------------------------------------------------------------
\* Properties

\* C1: during run() the work of a node is never started before the work of
\* every one of its declared dependencies has returned.
C1_FanInBarrier ==
    Executing =>
        \A n \in DOMAIN nodes :
            started[n] > 0 => \A d \in nodes[n].Dependencies : returned[d] > 0

\* C2: one run() invokes the work of every node exactly once: never more
\* than once while it runs, and once when it has returned.
C2_ExactlyOnce ==
    Executing =>
        /\ \A n \in DOMAIN nodes : started[n] <= 1
        /\ pc = "done" => \A n \in DOMAIN nodes : started[n] = 1

\* C3: when the work of a node has returned an error, the work of none of
\* its transitive dependents is invoked in that run.
C3_FailureBlocksDependents ==
    Executing =>
        \A n \in failed :
            \A m \in TransitiveDependents(nodes, n) : started[m] = 0

\* C4: Sort() of a graph built by Add succeeds with a permutation of the
\* identifiers in which every dependency comes before the nodes declaring it.
C4_SortIsTopologicalOrder ==
    res.op = "Sort" =>
        /\ res.err = NoErr
        /\ Len(res.order) = Cardinality(DOMAIN nodes)
        /\ Range(res.order) = DOMAIN nodes
        /\ \A i, j \in 1..Len(res.order) :
              res.order[i] \in nodes[res.order[j]].Dependencies => i < j

\* C5: Sort() of a graph that has all its dependencies and a cycle returns
\* the cycle error and no order, and the error names a node on a cycle.
C5_SortDetectsCycle ==
    (res.op = "Sort" /\ AllPresent(nodes) /\ Cyclic(nodes)) =>
        /\ res.err.kind = "cycle"
        /\ res.order = <<>>
        /\ OnCycle(nodes, res.err.id)

\* Sort() was called on the graph where a depends on c, b on a and c on b.
C5_Witness ==
    /\ res.op = "Sort"
    /\ DOMAIN nodes = {"a", "b", "c"}
    /\ nodes["a"].Dependencies = {"c"}
    /\ nodes["b"].Dependencies = {"a"}
    /\ nodes["c"].Dependencies = {"b"}
    /\ res.err.kind = "cycle"

\* C6: Add of a node with a new identifier and a dependency that is absent
\* returns the missing-dependency error, naming an absent dependency, and
\* leaves the graph as it was.
C6_AddMissingDependency ==
    (/\ res.op = "Add"
     /\ res.arg.Name \notin DOMAIN res.before
     /\ ~(res.arg.Dependencies \subseteq DOMAIN res.before)) =>
        /\ res.err.kind = "missing"
        /\ res.err.id \in res.arg.Dependencies \ DOMAIN res.before
        /\ res.id = ""
        /\ nodes = res.before

\* Add failed on a node of which one dependency is present and one absent.
C6_Witness ==
    /\ res.op = "Add"
    /\ res.err.kind = "missing"
    /\ res.arg.Dependencies \cap DOMAIN res.before # {}
    /\ res.before # NewGraph

\* C7: Add of a node whose identifier is present returns the duplicate
\* error, whatever its dependencies, and leaves the graph as it was.
C7_AddDuplicate ==
    (res.op = "Add" /\ res.arg.Name \in DOMAIN res.before) =>
        /\ res.err = DuplicateErr(res.arg.Name)
        /\ res.id = ""
        /\ nodes = res.before

\* Add failed on a node that differs from the stored node of the same
\* identifier and has an absent dependency.
C7_Witness ==
    /\ res.op = "Add"
    /\ res.err.kind = "duplicate"
    /\ res.arg # res.before[res.arg.Name]
    /\ ~(res.arg.Dependencies \subseteq DOMAIN res.before)

\* C8: Add of a node with a new identifier and all dependencies present
\* returns the identifier and stores the node beside the unchanged previous
\* nodes; a stored node is never reported missing by a later Add and is in
\* the results of later Sort and CompileToExecutable calls.
C8_AddSuccess ==
    /\ (/\ res.op = "Add"
        /\ res.arg.Name \notin DOMAIN res.before
        /\ res.arg.Dependencies \subseteq DOMAIN res.before) =>
           /\ res.err = NoErr
           /\ res.id = res.arg.Name
           /\ DOMAIN nodes = DOMAIN res.before \cup {res.arg.Name}
           /\ nodes[res.arg.Name] = res.arg
           /\ \A x \in DOMAIN res.before : nodes[x] = res.before[x]
    /\ (res.op = "Add" /\ res.err.kind = "missing") =>
           res.err.id \notin DOMAIN res.before
    /\ res.op = "Sort" => DOMAIN nodes \subseteq Range(res.order)
    /\ pc # "build" => DOMAIN nodes \subseteq DOMAIN plan

\* Add succeeded on a node with a dependency, beside a stored node.
C8_Witness ==
    /\ res.op = "Add"
    /\ res.err = NoErr
    /\ res.arg.Dependencies # {}
    /\ Cardinality(DOMAIN nodes) >= 3

\* C9: run() of a chain invokes the work of every node exactly once, and
\* the work of a node starts only after the work of its predecessor has
\* returned.
C9_LinearChain ==
    (Executing /\ IsChain(nodes)) =>
        /\ \A n \in DOMAIN nodes :
              /\ started[n] <= 1
              /\ returned[n] <= started[n]
              /\ started[n] > 0 => \A d \in nodes[n].Dependencies : returned[d] = 1
        /\ pc = "done" =>
              \A n \in DOMAIN nodes : started[n] = 1 /\ returned[n] = 1

\* run() has returned on a chain of three or more nodes.
C9_Witness ==
    /\ pc = "done"
    /\ IsChain(nodes)
    /\ Cardinality(DOMAIN nodes) >= 3

\* C10: the plan has, for each node, required equal to the number of its
\* dependencies, its work function, and as targets exactly the nodes that
\* declare it as a dependency; RootIds() is the nodes without dependencies,
\* each once.
C10_CompileMatchesReference ==
    /\ pc # "build" =>
          /\ DOMAIN plan = DOMAIN nodes
          /\ \A n \in DOMAIN nodes :
                /\ plan[n].required = Cardinality(nodes[n].Dependencies)
                /\ plan[n].fn = nodes[n].Fn
                /\ plan[n].targetIDs = {m \in DOMAIN nodes : n \in nodes[m].Dependencies}
    /\ Executing =>
          /\ Range(rootIds) = {n \in DOMAIN nodes : nodes[n].Dependencies = {}}
          /\ Len(rootIds) = Cardinality(Range(rootIds))

\* run() has read the roots of a plan in which a node has two dependencies
\* and two nodes are roots.
C10_Witness ==
    /\ Executing
    /\ Len(rootIds) >= 2
    /\ \E n \in DOMAIN plan : plan[n].required = 2

\* C11: two CompileToExecutable calls on one graph give plans of the same
\* identifiers, required counts and targets; no step of the run of the first
\* plan changes either plan, and adding a target to a node of the second
\* plan leaves the first as it was.
C11_CompileIdempotent ==
    [][/\ pc # "build" => plan' = plan
       /\ (pc \in {"compiled", "running"} /\ plan2 # <<>>) => plan2' = plan2
       /\ (pc' \in {"compiled", "running"} /\ plan2' # <<>>) =>
              Topology(plan2') = Topology(plan')]_vars

\* The first plan, which has targets, has been run and a target was then
\* added to a node of the second plan.
C11_Witness ==
    /\ pc = "done"
    /\ plan2 # <<>>
    /\ plan2 # plan
    /\ \E id \in DOMAIN plan : plan[id].targetIDs # {} /\ started[id] > 0

\* C12: run() of a plan compiled from a graph that has all its dependencies
\* completes: it never ends the program by nesting runNode without end, and
\* it leaves the nodes that lie on a cycle unexecuted.
C12_RunTerminates ==
    AllPresent(nodes) =>
        /\ pc # "crashed"
        /\ \A n \in DOMAIN nodes : OnCycle(nodes, n) => started[n] = 0

\* The step of run() in which the work of id is called.
StartWork(id) ==
    /\ RunRoot \/ RunTarget
    /\ started'[id] = started[id] + 1

\* The work of id has been called and has not returned.
Running(id) == started[id] > returned[id]

\* C13: nodes that are Ready are dispatched concurrently: while the work
\* of one root is Running, the work of a root that has not been started
\* can start, so that both are Running at the same time.
C13_ConcurrentDispatch ==
    pc = "running" =>
        \A r1, r2 \in Range(rootIds) :
            (Running(r1) /\ started[r2] = 0) => ENABLED StartWork(r2)

\* Every node has a dependency and some node lies on a cycle.
CyclicWithoutFreeNode(g) ==
    /\ Cyclic(g)
    /\ \A n \in DOMAIN g : g[n].Dependencies # {}

\* C14: the plan of a cyclic graph in which every node has a dependency has
\* no roots, and run() of it calls no work and returns.
C14_NoRootsNoWork ==
    (pc # "build" /\ CyclicWithoutFreeNode(nodes)) =>
        /\ RootIds(plan) = {<<>>}
        /\ rootIds = <<>>
        /\ \A n \in IDs : started[n] = 0
        /\ pc # "crashed"
        /\ pc = "running" => ENABLED RunReturn

\* C15: Sort() of a graph without a cycle in which a node declares a
\* dependency that is not in the graph returns the missing-dependency error,
\* naming a declared dependency that is absent, and no order.
C15_SortMissingDependency ==
    (res.op = "Sort" /\ ~AllPresent(nodes) /\ ~Cyclic(nodes)) =>
        /\ res.err.kind = "missing"
        /\ res.err.id \notin DOMAIN nodes
        /\ \E n \in DOMAIN nodes : res.err.id \in nodes[n].Dependencies
        /\ res.order = <<>>

\* Sort() was called on a graph of three nodes, two of them with a
\* dependency that is present and one with a dependency that is absent.
C15_Witness ==
    /\ res.op = "Sort"
    /\ res.err.kind = "missing"
    /\ ~Cyclic(nodes)
    /\ Cardinality(DOMAIN nodes) = 3
    /\ Cardinality({n \in DOMAIN nodes :
           nodes[n].Dependencies # {} /\ nodes[n].Dependencies \subseteq DOMAIN nodes}) = 2

\* The plan as the graph alone determines it: an entry for every node and
\* every declared dependency, the nodes declaring it as targets.
PlanOf(g) ==
    LET ids == DOMAIN g \cup UNION {g[n].Dependencies : n \in DOMAIN g}
        dependents(d) == {n \in DOMAIN g : d \in g[n].Dependencies}
    IN  [id \in ids |->
            [targetIDs |-> dependents(id),
             nilTargets |-> dependents(id) = {},
             required |-> IF id \in DOMAIN g THEN Cardinality(g[id].Dependencies) ELSE 0,
             fn |-> IF id \in DOMAIN g THEN g[id].Fn ELSE NilFn]]

\* C16: a Sort() call, whether it succeeds or fails, and a
\* CompileToExecutable() call leave the graph as it was, and the plan is
\* the one the graph determines, whether or not Sort() was called before.
C16_ReadOnlyConsumers ==
    [][/\ (res.op = "none" /\ res'.op = "Sort") => nodes' = nodes
       /\ (pc = "build" /\ pc' = "compiled") =>
              (nodes' = nodes /\ plan' = PlanOf(nodes))]_vars

\* Sort() has failed on a graph of three nodes, which is as it was.
C16_Witness ==
    /\ res.op = "Sort"
    /\ res.err # NoErr
    /\ Cardinality(DOMAIN nodes) = 3
    /\ nodes = res.before

\* C17: after any Add calls on a new graph, every node is stored under its
\* own identifier, every dependency of a stored node is stored and was in
\* the graph before the node declaring it was added, no node depends on
\* itself directly or transitively, and Sort() returns neither the cycle nor
\* the missing-dependency error.
C17_GraphInvariant ==
    /\ \A id \in DOMAIN nodes : Identifier(nodes[id]) = id
    /\ AllPresent(nodes)
    /\ ~Cyclic(nodes)
    /\ (res.op = "Add" /\ res.err = NoErr) =>
           /\ res.arg.Dependencies \subseteq DOMAIN res.before
           /\ res.arg.Name \notin DOMAIN res.before
    /\ res.op = "Sort" => res.err = NoErr

\* Sort() was called on a graph of three nodes in which a node has two
\* dependencies, one of which depends on the other.
C17_Witness ==
    /\ res.op = "Sort"
    /\ Cardinality(DOMAIN nodes) = 3
    /\ \E n \in DOMAIN nodes :
          /\ Cardinality(nodes[n].Dependencies) = 2
          /\ \E d \in nodes[n].Dependencies :
                nodes[d].Dependencies \cap nodes[n].Dependencies # {}

\* C18: run() of the plan of a graph built by Add returns, and by then the
\* work of every node has been called at least once.
C18_NoNodeSkipped ==
    (pc = "compiled") ~>
        (pc = "done" /\ \A n \in DOMAIN nodes : started[n] >= 1 /\ returned[n] >= 1)

\* run() has returned on a graph of three nodes of which one is reached
\* only through the targets of a node that is not a root.
C18_Witness ==
    /\ pc = "done"
    /\ Cardinality(DOMAIN nodes) = 3
    /\ \E n \in DOMAIN nodes :
          /\ started[n] >= 1
          /\ \A d \in nodes[n].Dependencies : nodes[d].Dependencies # {}
          /\ nodes[n].Dependencies # {}

\* C19: the plan of a graph built by Add has an executable node for every
\* identifier of the graph and for no other, each with the work function of
\* its graph node; every target is an identifier of the plan, so is every
\* identifier runNode is called with, and every root is a node of the graph
\* that has no dependencies.
C19_PlanClosed ==
    pc # "build" =>
        /\ DOMAIN plan = DOMAIN nodes
        /\ \A id \in DOMAIN plan :
              /\ plan[id].fn = nodes[id].Fn
              /\ plan[id].fn # NilFn
              /\ plan[id].targetIDs \subseteq DOMAIN plan
              /\ plan[id].required = 0 => nodes[id].Dependencies = {}
        /\ Range(rootIds) \subseteq DOMAIN nodes
        /\ \A i \in 1..Len(stack) :
              /\ stack[i].id \in DOMAIN plan
              /\ stack[i].todo \subseteq DOMAIN plan

\* runNode has been called for a target, in the run of the plan of a graph
\* of three nodes.
C19_Witness ==
    /\ pc = "running"
    /\ Cardinality(DOMAIN nodes) = 3
    /\ Len(stack) >= 2

====
